---------------------------- MODULE Spec2Model ----------------------------
(***************************************************************************)
(* A model of the Giri dynamic-tracing runtime (src/runtime/Giri/          *)
(* Tracing.cpp): the memory-mapped entry cache, the basic-block and        *)
(* function-call shadow stacks, the record hooks and the exit-time         *)
(* teardown.                                                               *)
(*                                                                         *)
(* Unsigned 32-bit quantities (BBStackIndex, FNStackIndex, call ids) are   *)
(* written as their two's-complement representatives: the bit pattern      *)
(* 0xFFFFFFFF is -1, so that x - 1 and x + 1 are the machine's wrapping    *)
(* operations on every value the model reaches.                            *)
(***************************************************************************)
EXTENDS Integers, Sequences, FiniteSets, TLC

(***************************************************************************)
(* Bounds of the model.                                                    *)
(***************************************************************************)
\* Entries per cache window (the source's window holds 256 MiB / sizeof(Entry)).
CacheEntries == 2
\* Depth of the basic-block stack (4096 in the source, line 67).
maxBBStack == 2
\* Depth of the function-call stack (4096 in the source, line 74).
maxFNStack == 1
\* Hook calls made by the traced program in one run.
MaxHooks == 3
\* Calls of updateThreadID in one run (recordInit's included).
MaxThreadUpdates == 3
\* Basic blocks of the module the numbering passes work on.
MaxBlocks == 2
\* Operands of the module's named metadata node.
MaxOperands == 4

(***************************************************************************)
(* Program constants.                                                      *)
(***************************************************************************)
\* The block id that forces the trace out in recordStartBB.
ForceFlushID == 190531
\* sizeof(Entry), in the model's byte unit.
sizeofEntry == 2

\* What the build fixes: whether NDEBUG compiles the assert()s out, and what
\* is left of the cache's byte size after division by sizeof(Entry) (Entry
\* is declared in Giri/Runtime.h and its size depends on the target).
VARIABLE build

entryCacheSizeinBytes == CacheEntries * sizeofEntry + build.remainder
entryCacheSize == entryCacheSizeinBytes \div sizeofEntry

\* ~0 as an unsigned: all bits set.
AllOnes == -1

SIGINT == 2
SIGQUIT == 3
SIGILL == 4
SIGABRT == 6
SIGFPE == 8
SIGKILL == 9
SIGSEGV == 11
SIGTERM == 15
\* The signals recordInit passes to signal().
RegisteredSignals ==
  {SIGINT, SIGQUIT, SIGSEGV, SIGABRT, SIGTERM, SIGKILL, SIGILL, SIGFPE}
\* The signals the model delivers: two of the seven that share the handler,
\* and SIGKILL.
DeliveredSignals == {SIGINT, SIGSEGV, SIGKILL}
\* signal() refuses SIGKILL (EINVAL): its disposition cannot be changed.
Catchable(sig) == sig # SIGKILL

(***************************************************************************)
(* Entries.                                                                *)
(***************************************************************************)
RecordTypes ==
  {"BBType", "LDType", "STType", "CLType", "RTType", "INVType", "PDType",
   "ENType"}

\* Entry (type, id, address = 0, length = 0).
Entry(type, id, address, length) ==
  [type |-> type, id |-> id, address |-> address, length |-> length]

\* A slot of the file no entry was written to (the file is zero-filled there).
NoEntry == [type |-> "none", id |-> 0, address |-> 0, length |-> 0]

NULL == -1

\* mmap's error value, (void *) -1: an address no entry can be stored at.
MAP_FAILED == -3

\* The numbering passes' state (BasicBlockNumbering.cpp).
VARIABLES
  blocks,              \* the module's basic blocks, in iteration order
  md,                  \* the named metadata "dg": NoMD, or its operands
  IDMap, BBMap,        \* QueryBasicBlockNumbers' maps
  queryState           \* "idle", "done", "aborted": its runOnModule

compileTime == <<blocks, md, IDMap, BBMap, queryState>>

\* updateThreadID followed statement by statement in each thread.
VARIABLES
  mutexRecordThreadID, \* the mutex: 0 when unlocked, else the thread holding it
  updating,            \* per thread: where it is in updateThreadID, and the
                       \* value it read for countUpdateThreadID++
  sections             \* history: the threads that locked the mutex, in order

mutexVars == <<mutexRecordThreadID, updating, sections>>

\* The traced program: its code as the instrumentation pass leaves it, and
\* its execution.
VARIABLES
  code,                \* per basic block, its instructions in order
  todo,                \* the blocks runOnBasicBlock has not been run on
  exec                 \* the activations in progress, innermost last: the
                       \* block and instruction each is at, and the id of
                       \* the recordCall that entered it (0: none)

progVars == <<code, todo, exec>>

VARIABLES
  pc,                  \* "start", "running", "exited", "killed"
  entryCache,          \* [index, cache, fileOffset]
  file,                \* the trace file, one element per Entry-sized slot
  fileSize,            \* the file's length in bytes
  filePos,             \* the descriptor's file position
  mapped,              \* the byte offsets of the file's slots now mapped
  trace_index,
  BBStack, BBStackIndex,
  FNStack, FNStackIndex,
  handlerThreadID, countUpdateThreadID,
  atexitHandlers,      \* functions registered with atexit
  handlers,            \* signals whose disposition is cleanup_only_tracing
  exitCode,
  appended,            \* history: the entries given to addToEntryCache
  closeCount,          \* history: executions of closeCacheFile
  hooks,               \* history: hook calls made
  producing,           \* history: calls of the hooks that write a record
  hist,                \* history: the operations run, oldest first
  step,                \* where the running hook is inside addToEntryCache
  pending              \* the entry that hook is adding

vars ==
  <<pc, entryCache, file, fileSize, filePos, mapped, trace_index, BBStack,
    BBStackIndex, FNStack, FNStackIndex, handlerThreadID,
    countUpdateThreadID, atexitHandlers, handlers, exitCode, appended,
    closeCount, hooks, producing, hist, step, pending, build, blocks, md,
    IDMap, BBMap, queryState, mutexRecordThreadID, updating, sections,
    code, todo, exec>>

(***************************************************************************)
(* The part of the state the cache and teardown code works on, as one      *)
(* record, so that addToEntryCache, flushCache and closeCacheFile compose. *)
(***************************************************************************)
Cur ==
  [entryCache |-> entryCache, file |-> file, fileSize |-> fileSize,
   filePos |-> filePos, mapped |-> mapped, trace_index |-> trace_index,
   BBStack |-> BBStack, BBStackIndex |-> BBStackIndex,
   pc |-> pc, exitCode |-> exitCode,
   appended |-> appended, closeCount |-> closeCount]

Commit(m) ==
  /\ entryCache' = m.entryCache
  /\ file' = m.file
  /\ fileSize' = m.fileSize
  /\ filePos' = m.filePos
  /\ mapped' = m.mapped
  /\ trace_index' = m.trace_index
  /\ BBStack' = m.BBStack
  /\ BBStackIndex' = m.BBStackIndex
  /\ pc' = m.pc
  /\ exitCode' = m.exitCode
  /\ appended' = m.appended
  /\ closeCount' = m.closeCount

Max(a, b) == IF a >= b THEN a ELSE b

\* The byte offsets of the slots of [from, from + len).
SlotsOf(from, len) ==
  {b \in from .. (from + len - 1) : (b - from) % sizeofEntry = 0}

\* The extension as it would be if the first lseek were SEEK_SET.
ExtendFileFromStart(m) ==
  LET currentPosition == entryCacheSizeinBytes + 1
  IN  [m EXCEPT !.fileSize = Max(m.fileSize, currentPosition + 1),
                !.filePos = currentPosition]

\* lseek (fd, entryCacheSizeinBytes+1, SEEK_CUR); write (fd, buf, 1);
\* lseek (fd, currentPosition, SEEK_SET), currentPosition being what the
\* first lseek returned.
ExtendFile(m) ==
  LET currentPosition == m.filePos + entryCacheSizeinBytes + 1
  IN  [m EXCEPT !.fileSize = Max(m.fileSize, currentPosition + 1),
                !.filePos = currentPosition]

\* mmap (0, entryCacheSizeinBytes, ..., MAP_SHARED, fd, fileOffset)
Mmap(m) ==
  [m EXCEPT !.entryCache.cache = m.entryCache.fileOffset,
            !.mapped = m.mapped \cup
                       SlotsOf(m.entryCache.fileOffset, entryCacheSizeinBytes)]

\* munmap (cache, sizeof(Entry) * index): a length of 0 is an error (EINVAL)
\* and unmaps nothing.
Munmap(m) ==
  [m EXCEPT !.mapped = m.mapped \
                       SlotsOf(m.entryCache.cache,
                               sizeofEntry * m.entryCache.index)]

\* assert (cond): nothing when cond holds or NDEBUG is defined, else a
\* message and abort().  No handler is installed yet where recordInit and
\* openFD use it, so SIGABRT ends the process.
Check(m, cond) ==
  IF cond \/ build.NDEBUG \/ m.pc = "killed" THEN m
  ELSE [m EXCEPT !.pc = "killed", !.exitCode = SIGABRT]

\* entryCache::openFD, the descriptor being valid or -1 and mmap succeeding
\* or not.  On a descriptor of -1 lseek, write and mmap fail with EBADF.
OpenFDWith(m, fdOk, mmapOk) ==
  IF m.pc = "killed" THEN m
  ELSE
    LET m1 == [m EXCEPT !.entryCache =
                          [index |-> 0, cache |-> NULL, fileOffset |-> 0]]
        m2 == IF fdOk /\ mmapOk THEN Mmap(ExtendFile(m1))
              ELSE IF fdOk
              THEN [ExtendFile(m1) EXCEPT !.entryCache.cache = MAP_FAILED]
              ELSE [m1 EXCEPT !.entryCache.cache = MAP_FAILED]
    IN  Check(m2, m2.entryCache.cache # MAP_FAILED)

\* entryCache::openFD when the system calls succeed.
OpenFD(m) == OpenFDWith(m, TRUE, TRUE)

\* The advance as it would be if it added the capacity in entries.
AdvanceOffsetByEntries(m) ==
  [m EXCEPT !.entryCache.fileOffset =
              m.entryCache.fileOffset + entryCacheSize]

\* entryCache::flushCache.  msync changes nothing here: the window is a
\* shared mapping, so the file already holds what was stored through it.
AdvanceOffset(m) ==
  [m EXCEPT !.entryCache.fileOffset =
              m.entryCache.fileOffset + entryCacheSizeinBytes]

ResetIndex(m) == [m EXCEPT !.entryCache.index = 0]

\* flushCache as it would be without "fileOffset += entryCacheSizeinBytes".
FlushCacheSameOffset(m) == ResetIndex(Mmap(ExtendFile(Munmap(m))))

FlushCache(m) == ResetIndex(Mmap(ExtendFile(AdvanceOffset(Munmap(m)))))

FlushEntryCache(m) == FlushCache(m)

\* The file with slot k (counted from 0) set to e; the slots between the old
\* end and k read as zeroes.
WriteSlot(f, k, e) ==
  [i \in 1 .. Max(Len(f), k + 1) |->
     IF i = k + 1 THEN e ELSE IF i <= Len(f) THEN f[i] ELSE NoEntry]

\* entryCache.cache[entryCache.index] = entry: a store through the mapping.
\* A store to an address that is not mapped raises SIGSEGV; the handler's
\* exit() runs the teardown, which stores through the same address while
\* SIGSEGV is blocked, so the process is killed.
StoreEntry(m, e) ==
  LET at == m.entryCache.cache + sizeofEntry * m.entryCache.index
  IN  IF m.entryCache.cache # NULL /\ at \in m.mapped
      THEN [m EXCEPT !.file = WriteSlot(m.file, at \div sizeofEntry, e)]
      ELSE [m EXCEPT !.pc = "killed", !.exitCode = SIGSEGV]

\* addToEntryCache as it would be if a full cache were flushed and the
\* entry that found it full were not stored.
AddToEntryCacheDropWhenFull(m, entry) ==
  IF m.pc = "killed" THEN m
  ELSE IF m.entryCache.index = entryCacheSize THEN FlushEntryCache(m)
  ELSE
    LET m2 == StoreEntry(m, entry)
    IN  IF m2.pc = "killed" THEN m2
        ELSE [m2 EXCEPT !.entryCache.index = m2.entryCache.index + 1,
                        !.trace_index = m2.trace_index + 1,
                        !.appended = Append(m2.appended, entry)]

AddToEntryCache(m, entry) ==
  IF m.pc = "killed" THEN m
  ELSE
    LET m1 == IF m.entryCache.index = entryCacheSize
              THEN FlushEntryCache(m) ELSE m
        m2 == StoreEntry(m1, entry)
    IN  IF m2.pc = "killed" THEN m2
        ELSE [m2 EXCEPT !.entryCache.index = m2.entryCache.index + 1,
                        !.trace_index = m2.trace_index + 1,
                        !.appended = Append(m2.appended, entry)]

\* The drain as it would be if it walked the stack from the bottom up.
RECURSIVE EmitFrom(_, _)
EmitFrom(m, k) ==
  IF k >= m.BBStackIndex THEN [m EXCEPT !.BBStackIndex = 0]
  ELSE EmitFrom(AddToEntryCache(m, Entry("BBType", m.BBStack[k].id,
                                         m.BBStack[k].address, 0)),
                k + 1)

DrainBBStackBottomUp(m) == EmitFrom(m, 0)

\* The while loop of closeCacheFile.  BBStackIndex > 0 is an unsigned
\* comparison.  A read of BBStack outside the array is a read far outside
\* the object: the process is killed by SIGSEGV, as in StoreEntry.
RECURSIVE DrainBBStack(_)
DrainBBStack(m) ==
  IF m.pc = "killed" \/ m.BBStackIndex = 0 THEN m
  ELSE
    LET i == m.BBStackIndex - 1
    IN  IF i \notin 0 .. (maxBBStack - 1)
        THEN [m EXCEPT !.BBStackIndex = i, !.pc = "killed",
                       !.exitCode = SIGSEGV]
        ELSE DrainBBStack(
               AddToEntryCache([m EXCEPT !.BBStackIndex = i],
                               Entry("BBType", m.BBStack[i].id,
                                     m.BBStack[i].address, 0)))

CloseCacheFile(m) ==
  LET m0 == [m EXCEPT !.closeCount = m.closeCount + 1]
      m1 == DrainBBStack(m0)
      m2 == AddToEntryCache(m1, Entry("ENType", 0, 0, 0))
  IN  IF m2.pc = "killed" THEN m2 ELSE FlushEntryCache(m2)

\* exit(): the functions registered with atexit run, last registered first.
RECURSIVE RunAtexit(_, _)
RunAtexit(m, hs) ==
  IF hs = <<>> THEN m
  ELSE RunAtexit(IF hs[Len(hs)] = "closeCacheFile" THEN CloseCacheFile(m)
                 ELSE m,
                 SubSeq(hs, 1, Len(hs) - 1))

Exit(m, status) ==
  LET m1 == RunAtexit(m, atexitHandlers)
  IN  IF m1.pc = "killed" THEN m1
      ELSE [m1 EXCEPT !.pc = "exited", !.exitCode = status]

\* cleanup_only_tracing
CleanupOnlyTracing(m, signum) == Exit(m, signum)

\* Delivery of a signal: the registered handler, or the default action.
Raise(m, sig) ==
  IF m.pc = "killed" THEN m
  ELSE IF sig \in handlers THEN CleanupOnlyTracing(m, sig)
  ELSE [m EXCEPT !.pc = "killed", !.exitCode = sig]

\* abort() raises SIGABRT.
Abort(m) == Raise(m, SIGABRT)

(***************************************************************************)
(* What the traced program passes to the hooks.                            *)
(***************************************************************************)
Threads == {1, 2}
MainThread == 1

\* Function addresses: two traced functions (0x1000, 0x5000), one with
\* no traced body (0x6000), and main (0x7000).
Fn == [A |-> 4096, B |-> 20480, Ext |-> 24576, Main |-> 28672]

\* The instrumented blocks: id, owning function, and whether the terminator
\* is a return (the lastBB argument instrumentBasicBlock passes).
Blocks ==
  {[id |-> 1, fp |-> Fn.A, lastBB |-> 1],
   [id |-> 3, fp |-> Fn.A, lastBB |-> 0],
   [id |-> 4, fp |-> Fn.B, lastBB |-> 1],
   [id |-> ForceFlushID, fp |-> Fn.B, lastBB |-> 0]}

\* The instrumented call sites: id and callee.
Calls == {[id |-> 6, fp |-> Fn.A], [id |-> 7, fp |-> Fn.B]}

\* The traced program's memory where it holds strings: "hello" at 0x3000
\* and "" at 0x3008.
Str == [hello |-> 12288, empty |-> 12296]
Memory ==
  [a \in 12288 .. 12296 |-> IF a \in 12288 .. 12292 THEN 104 ELSE 0]
Strings == {Str.hello, Str.empty}

\* strlen as it would be if it counted the terminator.
RECURSIVE StrlenWithTerminator(_)
StrlenWithTerminator(p) ==
  IF Memory[p] = 0 THEN 1 ELSE 1 + StrlenWithTerminator(p + 1)

\* strlen: the bytes before the first zero byte.
RECURSIVE Strlen(_)
Strlen(p) == IF Memory[p] = 0 THEN 0 ELSE 1 + Strlen(p + 1)

(***************************************************************************)
(* Initial state: the process before its constructors run.  Statics are    *)
(* zero; the trace file may be left over from an earlier, longer run.      *)
(***************************************************************************)
\* The empty module, nothing numbered and nothing queried.
NoMD == [named |-> FALSE, ops |-> <<>>]
NoModule ==
  /\ blocks = <<>>
  /\ md = NoMD
  /\ IDMap = <<>>
  /\ BBMap = <<>>
  /\ queryState = "idle"

\* The builds.  In WorkingBuild sizeof(Entry) divides the cache size; as
\* long as open() and mmap() succeed no assert() of the run-time can fail in
\* it, whatever NDEBUG is.
Builds == [NDEBUG : BOOLEAN, remainder : 0 .. (sizeofEntry - 1)]
WorkingBuild == [NDEBUG |-> FALSE, remainder |-> 0]

\* The run-time's statics when the process starts.
RuntimeInit ==
  /\ pc = "start"
  /\ entryCache = [index |-> 0, cache |-> NULL, fileOffset |-> 0]
  /\ file \in {<<>>, <<Entry("LDType", 2, 8192, 8), Entry("ENType", 0, 0, 0)>>}
  /\ fileSize = Len(file) * sizeofEntry
  /\ filePos = 0
  /\ mapped = {}
  /\ trace_index = 0
  /\ BBStack = [i \in 0 .. (maxBBStack - 1) |-> [id |-> 0, address |-> 0]]
  /\ BBStackIndex = 0
  /\ FNStack = [i \in 0 .. (maxFNStack - 1) |-> [id |-> 0, fnAddress |-> 0]]
  /\ FNStackIndex = 0
  /\ handlerThreadID = 0
  /\ countUpdateThreadID = 0
  /\ mutexRecordThreadID = 0
  /\ updating = [t \in Threads |-> [pc |-> "idle", tmp |-> 0]]
  /\ sections = <<>>
  /\ atexitHandlers = <<>>
  /\ handlers = {}
  /\ exitCode = 0
  /\ appended = <<>>
  /\ closeCount = 0
  /\ hooks = 0
  /\ producing = 0
  /\ hist = <<>>
  /\ step = "idle"
  /\ pending = NoEntry

\* No program is followed instruction by instruction.
NoProgram ==
  /\ code = <<>>
  /\ todo = {}
  /\ exec = <<>>

\* A run of the traced program in which every system call succeeds.
Init ==
  /\ RuntimeInit
  /\ build = WorkingBuild
  /\ NoModule
  /\ NoProgram

\* The operation that led to the current state.
Last == IF hist = <<>> THEN [op |-> "none", arg |-> <<>>] ELSE hist[Len(hist)]

\* checkForNonHandlerThread as it would be with its "#if 0" part in force.
CheckForNonHandlerThreadGated(t) == t # handlerThreadID

\* checkForNonHandlerThread: "return false", the rest is compiled out.
CheckForNonHandlerThread(t) == FALSE

\* updateThreadID as it would be if only the first call set the id.
UpdateThreadIDFirstOnly(t) ==
  /\ handlerThreadID' = IF countUpdateThreadID = 0 THEN t
                        ELSE handlerThreadID
  /\ countUpdateThreadID' = countUpdateThreadID + 1

\* updateThreadID, called by thread t
UpdateThreadID(t) ==
  /\ handlerThreadID' = t
  /\ countUpdateThreadID' = countUpdateThreadID + 1

\* open (name, O_RDWR | O_CREAT | O_TRUNC), the assert on its result, and
\* entryCache.openFD (record); the rest of recordInit runs if the process
\* is still there.
RecordInitOpen(openOk, mmapOk) ==
  LET opened == IF openOk
                THEN [Cur EXCEPT !.file = <<>>, !.fileSize = 0,
                                 !.filePos = 0, !.pc = "running"]
                ELSE [Cur EXCEPT !.pc = "running"]
      m == OpenFDWith(Check(opened, openOk), openOk, mmapOk)
  IN  /\ Commit(m)
      /\ IF m.pc = "killed"
         THEN UNCHANGED <<handlerThreadID, countUpdateThreadID,
                          atexitHandlers, handlers>>
         ELSE /\ atexitHandlers' = Append(atexitHandlers, "closeCacheFile")
              /\ handlers' = {sig \in RegisteredSignals : Catchable(sig)}
              /\ UpdateThreadID(MainThread)

\* recordInit as it would be without the test of the sizes.
RecordInitUnchecked(openOk, mmapOk) ==
  /\ pc = "start"
  /\ RecordInitOpen(openOk, mmapOk)
  /\ UNCHANGED <<FNStack, FNStackIndex, hooks, producing, step, pending,
                 build, compileTime, mutexVars, progVars>>
  /\ hist' = Append(hist, [op |-> "recordInit", arg |-> <<>>])

\* recordInit, run once as a global constructor by the main thread, open()
\* and mmap() succeeding or not.
RecordInitWith(openOk, mmapOk) ==
  /\ pc = "start"
  /\ IF entryCacheSizeinBytes % sizeofEntry # 0
     THEN /\ Commit(Abort(Cur))
          /\ UNCHANGED <<handlerThreadID, countUpdateThreadID,
                         atexitHandlers, handlers>>
     ELSE RecordInitOpen(openOk, mmapOk)
  /\ UNCHANGED <<FNStack, FNStackIndex, hooks, producing, step, pending,
                 build, compileTime, mutexVars, progVars>>
  /\ hist' = Append(hist, [op |-> "recordInit", arg |-> <<>>])

\* recordInit when open() and mmap() succeed.
RecordInit == RecordInitWith(TRUE, TRUE)

\* The hooks that write a record when they are called.
RecordHooks ==
  {"recordBB", "recordLoad", "recordStore", "recordStrLoad",
   "recordStrStore", "recordStrcatStore", "recordCall", "recordReturn",
   "recordExtCall", "recordInvFailure", "recordSelect"}

\* The activations when the innermost has gone on to its next instruction;
\* no activation is followed where the hooks are called one by one.
NextInstruction(e) ==
  IF e = <<>> THEN e ELSE [e EXCEPT ![Len(e)].ip = e[Len(e)].ip + 1]

\* What every hook call shares: the process is running the traced program,
\* which goes on after the call.  The hook calls of a program that is
\* followed instruction by instruction are as many as it makes.
EnterHook(op, arg) ==
  /\ pc = "running"
  /\ step = "idle"
  /\ hooks < MaxHooks \/ exec # <<>>
  /\ hooks' = hooks + 1
  /\ producing' = IF op \in RecordHooks THEN producing + 1 ELSE producing
  /\ hist' = Append(hist, [op |-> op, arg |-> arg])
  /\ exec' = NextInstruction(exec)
  /\ UNCHANGED <<atexitHandlers, handlers, build, compileTime, mutexVars,
                 code, todo>>

\* A hook run from its call to its return.
HookCall(op, arg) == EnterHook(op, arg) /\ UNCHANGED <<step, pending>>

ThreadIdUnchanged == UNCHANGED <<handlerThreadID, countUpdateThreadID>>
FNUnchanged == UNCHANGED <<FNStack, FNStackIndex>>

\* A hook whose whole effect is one entry.
Emit(entry) == Commit(AddToEntryCache(Cur, entry)) /\ FNUnchanged
               /\ ThreadIdUnchanged

RecordStartBBOn(m, id, fp) ==
  IF m.BBStackIndex = maxBBStack THEN Abort(m)
  ELSE
    LET m1 == [m EXCEPT !.BBStack[m.BBStackIndex] =
                          [id |-> id, address |-> fp],
                        !.BBStackIndex = m.BBStackIndex + 1]
    IN  IF id = ForceFlushID THEN Abort(CloseCacheFile(m1)) ELSE m1

RecordStartBB(t, id, fp) ==
  /\ HookCall("recordStartBB", <<id, fp>>)
  /\ IF CheckForNonHandlerThread(t) THEN Commit(Cur)
     ELSE Commit(RecordStartBBOn(Cur, id, fp))
  /\ FNUnchanged /\ ThreadIdUnchanged

\* recordBB's call id as it would be without the "callID = ~0" branch.
CallIDOfNoSentinel(fp, lastBB) ==
  IF lastBB # 0 /\ FNStackIndex # 0
     /\ FNStack[FNStackIndex - 1].fnAddress = fp
  THEN FNStack[FNStackIndex - 1].id
  ELSE 0

\* recordBB's call id as it would be if the top frame's id were used
\* whenever the addresses match, lastBB or not.
CallIDOfIgnoringLastBB(fp, lastBB) ==
  IF FNStackIndex # 0
  THEN IF FNStack[FNStackIndex - 1].fnAddress # fp THEN 0
       ELSE FNStack[FNStackIndex - 1].id
  ELSE IF lastBB # 0 THEN AllOnes ELSE 0

\* The call id recordBB stores in the entry's length field.
CallIDOf(fp, lastBB) ==
  IF lastBB # 0
  THEN IF FNStackIndex # 0
       THEN IF FNStack[FNStackIndex - 1].fnAddress # fp THEN 0
            ELSE FNStack[FNStackIndex - 1].id
       ELSE AllOnes
  ELSE 0

\* The pop as it would be without the comparison of the function addresses.
PopsFNAnyFunction(fp, lastBB) == lastBB # 0 /\ FNStackIndex # 0

\* The pop as it would be without the "FNStackIndex > 0" test.
PopsFNUnchecked(fp, lastBB) ==
  lastBB # 0 /\ (FNStackIndex = 0 \/ FNStack[FNStackIndex - 1].fnAddress = fp)

\* Whether recordBB takes the top frame off the function-call stack.
PopsFN(fp, lastBB) ==
  lastBB # 0 /\ FNStackIndex # 0 /\ FNStack[FNStackIndex - 1].fnAddress = fp

\* recordBB as it would be if the block frame were popped only for a
\* function's last block.
RecordBBPopOnLastOnly(t, id, fp, lastBB) ==
  /\ BBStackIndex # 0
  /\ HookCall("recordBB", <<id, fp, lastBB>>)
  /\ FNStackIndex' = IF PopsFN(fp, lastBB) THEN FNStackIndex - 1
                     ELSE FNStackIndex
  /\ FNStack' = FNStack
  /\ LET m == AddToEntryCache(Cur, Entry("BBType", id, fp,
                                         CallIDOf(fp, lastBB)))
     IN  Commit(IF lastBB # 0
                THEN [m EXCEPT !.BBStackIndex = m.BBStackIndex - 1]
                ELSE m)
  /\ ThreadIdUnchanged

\* recordBB, wherever it is called.  --BBStackIndex is an unsigned
\* decrement: from 0 it gives ~0.
RecordBBAnywhere(t, id, fp, lastBB) ==
  /\ HookCall("recordBB", <<id, fp, lastBB>>)
  /\ IF CheckForNonHandlerThread(t)
     THEN Commit(Cur) /\ FNUnchanged
     ELSE /\ FNStackIndex' = IF PopsFN(fp, lastBB) THEN FNStackIndex - 1
                             ELSE FNStackIndex
          /\ FNStack' = FNStack
          /\ LET m == AddToEntryCache(Cur, Entry("BBType", id, fp,
                                                 CallIDOf(fp, lastBB)))
             IN  Commit([m EXCEPT !.BBStackIndex = m.BBStackIndex - 1])
  /\ ThreadIdUnchanged

\* recordBB.  The instrumentation places it at the end of a block whose
\* recordStartBB ran at its start, so it runs with a frame on the block stack.
RecordBB(t, id, fp, lastBB) ==
  /\ BBStackIndex # 0
  /\ RecordBBAnywhere(t, id, fp, lastBB)

RecordLoad(t, id, p, length) ==
  /\ HookCall("recordLoad", <<id, p, length>>)
  /\ IF CheckForNonHandlerThread(t)
     THEN Commit(Cur) /\ FNUnchanged /\ ThreadIdUnchanged
     ELSE Emit(Entry("LDType", id, p, length))

RecordStore(t, id, p, length) ==
  /\ HookCall("recordStore", <<id, p, length>>)
  /\ IF CheckForNonHandlerThread(t)
     THEN Commit(Cur) /\ FNUnchanged /\ ThreadIdUnchanged
     ELSE Emit(Entry("STType", id, p, length))

RecordStrLoad(t, id, p) ==
  /\ HookCall("recordStrLoad", <<id, p>>)
  /\ IF CheckForNonHandlerThread(t)
     THEN Commit(Cur) /\ FNUnchanged /\ ThreadIdUnchanged
     ELSE Emit(Entry("LDType", id, p, Strlen(p) + 1))

RecordStrStore(t, id, p) ==
  /\ HookCall("recordStrStore", <<id, p>>)
  /\ IF CheckForNonHandlerThread(t)
     THEN Commit(Cur) /\ FNUnchanged /\ ThreadIdUnchanged
     ELSE Emit(Entry("STType", id, p, Strlen(p) + 1))

RecordStrcatStore(t, id, p, s) ==
  /\ HookCall("recordStrcatStore", <<id, p, s>>)
  /\ IF CheckForNonHandlerThread(t)
     THEN Commit(Cur) /\ FNUnchanged /\ ThreadIdUnchanged
     ELSE Emit(Entry("STType", id, p + Strlen(p), Strlen(s) + 1))

\* recordCall as it would be if it wrote the record and pushed no frame.
RecordCallWithoutPush(t, id, fp) ==
  /\ HookCall("recordCall", <<id, fp>>)
  /\ Commit(AddToEntryCache(Cur, Entry("CLType", id, fp, 0)))
  /\ FNUnchanged
  /\ ThreadIdUnchanged

\* recordCall with the abort() of its overflow branch not commented out.
RecordCallAbortOnOverflow(t, id, fp) ==
  /\ HookCall("recordCall", <<id, fp>>)
  /\ IF FNStackIndex = maxFNStack
     THEN /\ Commit(Abort(AddToEntryCache(Cur, Entry("CLType", id, fp, 0))))
          /\ FNUnchanged
     ELSE /\ Commit(AddToEntryCache(Cur, Entry("CLType", id, fp, 0)))
          /\ FNStack' = [FNStack EXCEPT ![FNStackIndex] =
                           [id |-> id, fnAddress |-> fp]]
          /\ FNStackIndex' = FNStackIndex + 1
  /\ ThreadIdUnchanged

RecordCall(t, id, fp) ==
  /\ HookCall("recordCall", <<id, fp>>)
  /\ IF CheckForNonHandlerThread(t)
     THEN Commit(Cur) /\ FNUnchanged
     ELSE /\ Commit(AddToEntryCache(Cur, Entry("CLType", id, fp, 0)))
          /\ IF FNStackIndex = maxFNStack
             THEN FNUnchanged
             ELSE /\ FNStack' = [FNStack EXCEPT ![FNStackIndex] =
                                   [id |-> id, fnAddress |-> fp]]
                  /\ FNStackIndex' = FNStackIndex + 1
  /\ ThreadIdUnchanged

RecordExtCall(t, id, fp) ==
  /\ HookCall("recordExtCall", <<id, fp>>)
  /\ IF CheckForNonHandlerThread(t)
     THEN Commit(Cur) /\ FNUnchanged /\ ThreadIdUnchanged
     ELSE Emit(Entry("CLType", id, fp, 0))

\* recordReturn as it would be if it closed the call's frame, the way
\* recordExtCallRet does.
RecordReturnPopping(t, id, fp) ==
  /\ HookCall("recordReturn", <<id, fp>>)
  /\ Commit(AddToEntryCache(Cur, Entry("RTType", id, fp, 0)))
  /\ FNStack' = FNStack
  /\ FNStackIndex' = IF FNStackIndex # 0 THEN FNStackIndex - 1
                     ELSE FNStackIndex
  /\ ThreadIdUnchanged

RecordReturn(t, id, fp) ==
  /\ HookCall("recordReturn", <<id, fp>>)
  /\ IF CheckForNonHandlerThread(t)
     THEN Commit(Cur) /\ FNUnchanged /\ ThreadIdUnchanged
     ELSE Emit(Entry("RTType", id, fp, 0))

RecordInvFailure(t, id) ==
  /\ HookCall("recordInvFailure", <<id>>)
  /\ IF CheckForNonHandlerThread(t)
     THEN Commit(Cur) /\ FNUnchanged /\ ThreadIdUnchanged
     ELSE Emit(Entry("INVType", id, 0, 0))

RecordSelect(t, id, flag) ==
  /\ HookCall("recordSelect", <<id, flag>>)
  /\ IF CheckForNonHandlerThread(t)
     THEN Commit(Cur) /\ FNUnchanged /\ ThreadIdUnchanged
     ELSE Emit(Entry("PDType", id, flag, 0))

RecordHandlerThreadID(t) ==
  /\ countUpdateThreadID < MaxThreadUpdates
  /\ HookCall("recordHandlerThreadID", <<t>>)
  /\ UpdateThreadID(t)
  /\ Commit(Cur) /\ FNUnchanged

\* The traced program ends: main returns or calls exit.
ProgramExit ==
  /\ pc = "running"
  /\ step = "idle"
  /\ Commit(Exit(Cur, 0))
  /\ hist' = Append(hist, [op |-> "exit", arg |-> <<>>])
  /\ UNCHANGED <<FNStack, FNStackIndex, handlerThreadID,
                 countUpdateThreadID, atexitHandlers, handlers, hooks,
                 producing, step, pending, build, compileTime, mutexVars,
                 progVars>>

\* A signal is delivered to the process: the interrupted code does not
\* resume when the handler exits the process.
Signal(sig) ==
  /\ pc = "running"
  /\ Commit(Raise(Cur, sig))
  /\ hist' = Append(hist, [op |-> "signal", arg |-> <<sig>>])
  /\ UNCHANGED <<FNStack, FNStackIndex, handlerThreadID,
                 countUpdateThreadID, atexitHandlers, handlers, hooks,
                 producing, step, pending, build, compileTime, mutexVars,
                 progVars>>

Next ==
  \/ RecordInit
  \/ \E t \in Threads :
       \/ \E b \in Blocks : RecordStartBB(t, b.id, b.fp)
       \/ \E b \in Blocks : RecordBB(t, b.id, b.fp, b.lastBB)
       \/ RecordLoad(t, 2, 8192, 8)
       \/ RecordStore(t, 5, 8192, 4)
       \/ \E p \in Strings : RecordStrLoad(t, 8, p)
       \/ \E p \in Strings : RecordStrStore(t, 9, p)
       \/ RecordStrcatStore(t, 10, Str.hello, Str.hello)
       \/ \E c \in Calls : RecordCall(t, c.id, c.fp)
       \/ RecordReturn(t, 6, Fn.A)
       \/ RecordExtCall(t, 11, Fn.Ext)
       \/ RecordInvFailure(t, 12)
       \/ RecordSelect(t, 13, 1)
       \/ RecordHandlerThreadID(t)
  \/ ProgramExit
  \/ \E sig \in DeliveredSignals : Signal(sig)

Spec == Init /\ [][Next]_vars

(***************************************************************************)
(* The same code with addToEntryCache and flushCache taken one statement   *)
(* at a time, so that a signal can arrive between any two of them.  The    *)
(* hook is recordLoad; the statements are those of lines 194-264.          *)
(***************************************************************************)
InHook ==
  /\ pc = "running"
  /\ UNCHANGED <<FNStack, FNStackIndex, handlerThreadID,
                 countUpdateThreadID, atexitHandlers, handlers, hooks,
                 producing, hist, build, compileTime, mutexVars, progVars>>

\* recordLoad is entered and builds its entry.
LoadEnter(t, id, p, length) ==
  /\ EnterHook("recordLoad", <<id, p, length>>)
  /\ step' = "check"
  /\ pending' = Entry("LDType", id, p, length)
  /\ Commit(Cur) /\ FNUnchanged /\ ThreadIdUnchanged

\* if (entryCache.index == entryCacheSize)
\* The check as it would be with ">" for "==".
AddCheckPastFull ==
  /\ InHook /\ step = "check"
  /\ step' = IF entryCache.index > entryCacheSize THEN "msync" ELSE "store"
  /\ Commit(Cur) /\ UNCHANGED pending

AddCheck ==
  /\ InHook /\ step = "check"
  /\ step' = IF entryCache.index = entryCacheSize THEN "msync" ELSE "store"
  /\ Commit(Cur) /\ UNCHANGED pending

FlushMsync ==
  /\ InHook /\ step = "msync"
  /\ step' = "munmap"
  /\ Commit(Cur) /\ UNCHANGED pending

FlushMunmap ==
  /\ InHook /\ step = "munmap"
  /\ step' = "offset"
  /\ Commit(Munmap(Cur)) /\ UNCHANGED pending

FlushOffset ==
  /\ InHook /\ step = "offset"
  /\ step' = "extend"
  /\ Commit(AdvanceOffset(Cur)) /\ UNCHANGED pending

FlushExtend ==
  /\ InHook /\ step = "extend"
  /\ step' = "mmap"
  /\ Commit(ExtendFile(Cur)) /\ UNCHANGED pending

FlushMmap ==
  /\ InHook /\ step = "mmap"
  /\ step' = "reset"
  /\ Commit(Mmap(Cur)) /\ UNCHANGED pending

FlushReset ==
  /\ InHook /\ step = "reset"
  /\ step' = "store"
  /\ Commit(ResetIndex(Cur)) /\ UNCHANGED pending

\* entryCache.cache[entryCache.index] = entry
AddStore ==
  /\ InHook /\ step = "store"
  /\ step' = "incIndex"
  /\ LET m == StoreEntry(Cur, pending)
     IN  Commit(IF m.pc = "killed" THEN m
                ELSE [m EXCEPT !.appended = Append(m.appended, pending)])
  /\ UNCHANGED pending

\* ++entryCache.index
AddIncIndex ==
  /\ InHook /\ step = "incIndex"
  /\ step' = "incTrace"
  /\ Commit([Cur EXCEPT !.entryCache.index = entryCache.index + 1])
  /\ UNCHANGED pending

\* ++trace_index, and the hook returns
AddIncTrace ==
  /\ InHook /\ step = "incTrace"
  /\ step' = "idle"
  /\ pending' = NoEntry
  /\ Commit([Cur EXCEPT !.trace_index = trace_index + 1])

SigNext ==
  \/ RecordInit
  \/ \E b \in Blocks : RecordStartBB(MainThread, b.id, b.fp)
  \/ LoadEnter(MainThread, 2, 8192, 8)
  \/ AddCheck
  \/ FlushMsync
  \/ FlushMunmap
  \/ FlushOffset
  \/ FlushExtend
  \/ FlushMmap
  \/ FlushReset
  \/ AddStore
  \/ AddIncIndex
  \/ AddIncTrace
  \/ ProgramExit
  \/ \E sig \in DeliveredSignals : Signal(sig)

SigSpec == Init /\ [][SigNext]_vars

(***************************************************************************)
(* Properties.                                                             *)
(***************************************************************************)
ENCount(f) == Cardinality({i \in 1 .. Len(f) : f[i].type = "ENType"})

\* The slots of the file that hold a record, in offset order.
RECURSIVE RecordsOf(_)
RecordsOf(f) ==
  IF f = <<>> THEN <<>>
  ELSE IF f[1] = NoEntry THEN RecordsOf(Tail(f))
  ELSE <<f[1]>> \o RecordsOf(Tail(f))

\* C1: after recordInit, the records of the file read in offset order are
\* the appended entries, in append order and field for field; and as long as
\* the only flushes are rotations of a full cache and the flush of one
\* teardown, slot k of the file holds the k-th appended entry, so nothing is
\* lost, duplicated, reordered or skipped at a window boundary.
RoundTrip ==
  pc # "start" =>
    /\ RecordsOf(file) = appended
    /\ closeCount <= 1 => file = appended

\* C1: a rotation has happened and the program is still appending.
RotatedWitness ==
  /\ pc = "running"
  /\ entryCache.fileOffset > 0
  /\ Len(appended) > entryCacheSize

\* C2: while the program runs, the number of records appended is the
\* number of calls made to the record-writing hooks (recordCall and
\* recordReturn count one each).
OneRecordPerHook ==
  pc = "running" => Len(appended) = producing /\ trace_index = producing

\* C2: a recordCall followed by its recordReturn has left two records.
CallReturnWitness ==
  /\ pc = "running"
  /\ Len(hist) = 3
  /\ hist[2].op = "recordCall"
  /\ hist[3].op = "recordReturn"
  /\ Len(appended) = 2

\* C3: a recordStartBB call that finds the block stack not full appends no
\* record, leaves the process running, and pushes (id, fp).
StartBBOnlyPushes ==
  [][(/\ hooks' = hooks + 1
      /\ hist'[Len(hist')].op = "recordStartBB"
      /\ BBStackIndex # maxBBStack)
     => (/\ appended' = appended
         /\ pc' = "running"
         /\ BBStackIndex' = BBStackIndex + 1
         /\ BBStack'[BBStackIndex] =
              [id |-> hist'[Len(hist')].arg[1],
               address |-> hist'[Len(hist')].arg[2]])]_vars

\* The run of C4: recordInit, recordStartBB(1, 0x1000),
\* recordLoad(2, 0x2000, 8), recordBB(1, 0x1000, 1), exit.
EndToEndRun ==
  <<[op |-> "recordInit", arg |-> <<>>],
    [op |-> "recordStartBB", arg |-> <<1, 4096>>],
    [op |-> "recordLoad", arg |-> <<2, 8192, 8>>],
    [op |-> "recordBB", arg |-> <<1, 4096, 1>>],
    [op |-> "exit", arg |-> <<>>]>>

\* C4: that run leaves exactly three records: the load, the block record
\* with the call id ~0, and the end-of-trace record.
EndToEnd ==
  hist = EndToEndRun =>
    file = <<[type |-> "LDType", id |-> 2, address |-> 8192, length |-> 8],
             [type |-> "BBType", id |-> 1, address |-> 4096,
              length |-> AllOnes],
             [type |-> "ENType", id |-> 0, address |-> 0, length |-> 0]>>

\* C4: the run has been made.
EndToEndWitness == hist = EndToEndRun /\ pc = "exited"

\* C5: once the process has exited, the file holds exactly one end-of-trace
\* record and it is the last record.
OneEndMarker ==
  pc = "exited" =>
    /\ ENCount(file) = 1
    /\ file # <<>>
    /\ file[Len(file)].type = "ENType"

\* C6: from any state between two hooks, a second closeCacheFile run right
\* after a first appends nothing and leaves the file as the first left it.
TeardownIdempotent ==
  (pc = "running" /\ step = "idle") =>
    LET once == CloseCacheFile(Cur)
        twice == CloseCacheFile(once)
    IN  twice.appended = once.appended /\ twice.file = once.file

\* C7: closeCacheFile's body runs at most once in the life of the process.
TeardownAtMostOnce == closeCount <= 1

\* C8: after the delivery of a signal recordInit registered, the process
\* has exited through exit() and closeCacheFile has run exactly once.
SignalRunsTeardownOnce ==
  (Last.op = "signal" /\ Last.arg[1] \in RegisteredSignals) =>
    pc = "exited" /\ closeCount = 1

\* C9: when a handled signal ends the process, wherever it interrupted the
\* hook, no store of the teardown went to an unmapped address and the file
\* holds every record stored before the signal, then the drain records and
\* the end marker, none overwritten.
SignalTeardownSafe ==
  (Last.op = "signal" /\ Last.arg[1] \in handlers) =>
    /\ pc = "exited"
    /\ RecordsOf(file) = appended

\* C10: a run of closeCacheFile that finds n frames on the block stack
\* appends n block records, top of the stack first, each with its frame's
\* id and function address, then an end-of-trace record with id 0, and
\* leaves the stack empty.
\* (The forced flush of recordStartBB runs closeCacheFile twice in one
\* step: first on the old frames under the frame just pushed, then on the
\* empty stack.)
DrainLIFO ==
  [][/\ closeCount' = closeCount + 1
        => LET n == BBStackIndex
               base == Len(appended)
           IN  /\ Len(appended') = base + n + 1
               /\ SubSeq(appended', 1, base) = appended
               /\ \A k \in 1 .. n :
                    /\ appended'[base + k].type = "BBType"
                    /\ appended'[base + k].id = BBStack[n - k].id
                    /\ appended'[base + k].address = BBStack[n - k].address
               /\ appended'[base + n + 1].type = "ENType"
               /\ appended'[base + n + 1].id = 0
               /\ BBStackIndex' = 0
     /\ closeCount' = closeCount + 2
        => LET n == BBStackIndex
               base == Len(appended)
               call == hist'[Len(hist')]
           IN  /\ Len(appended') = base + n + 3
               /\ SubSeq(appended', 1, base) = appended
               /\ appended'[base + 1].type = "BBType"
               /\ appended'[base + 1].id = call.arg[1]
               /\ appended'[base + 1].address = call.arg[2]
               /\ \A k \in 1 .. n :
                    /\ appended'[base + 1 + k].type = "BBType"
                    /\ appended'[base + 1 + k].id = BBStack[n - k].id
                    /\ appended'[base + 1 + k].address = BBStack[n - k].address
               /\ appended'[base + n + 2].type = "ENType"
               /\ appended'[base + n + 2].id = 0
               /\ appended'[base + n + 3].type = "ENType"
               /\ appended'[base + n + 3].id = 0
               /\ BBStackIndex' = 0]_vars

\* C10: the process exited with two different blocks in flight and nothing
\* else recorded.
DrainWitness ==
  /\ pc = "exited"
  /\ closeCount = 1
  /\ hooks = 2
  /\ Len(appended) = 3
  /\ appended[1].type = "BBType"
  /\ appended[2].type = "BBType"
  /\ appended[1].id # appended[2].id

\* A step that is a call of hook op, and the arguments of that call.
IsCallOf(op) == hooks' = hooks + 1 /\ hist'[Len(hist')].op = op
CallArg(i) == hist'[Len(hist')].arg[i]

\* The entry a step appended last.
NewEntry == appended'[Len(appended')]

\* C11: in a run that, after recordInit, only calls recordStartBB, each of
\* the first maxBBStack calls returns with its frame pushed, and call number
\* maxBBStack + 1 ends the process through abort() with the stack's
\* maxBBStack frames as they were.
BBOverflowAtMaxPlusOne ==
  (/\ Len(hist) >= 1
   /\ hist[1].op = "recordInit"
   /\ \A i \in 2 .. Len(hist) : hist[i].op = "recordStartBB")
  => LET k == Len(hist) - 1
     IN  /\ k <= maxBBStack =>
              /\ pc = "running"
              /\ BBStackIndex = k
              /\ \A i \in 0 .. (k - 1) :
                   BBStack[i] = [id |-> hist[i + 2].arg[1],
                                 address |-> hist[i + 2].arg[2]]
         /\ k = maxBBStack + 1 =>
              /\ pc = "exited"
              /\ exitCode = SIGABRT
              /\ \A i \in 0 .. (maxBBStack - 1) :
                   BBStack[i] = [id |-> hist[i + 2].arg[1],
                                 address |-> hist[i + 2].arg[2]]

\* C12: a recordCall that finds the function-call stack full appends its
\* call record, leaves the stack and its index as they were and leaves the
\* process running; and every call of a record-writing hook, before or
\* after such an overflow, appends one record and leaves the process running.
CallOverflowTolerated ==
  [][/\ (IsCallOf("recordCall") /\ FNStackIndex = maxFNStack)
        => /\ appended' = Append(appended,
                                  Entry("CLType", CallArg(1), CallArg(2), 0))
           /\ FNStack' = FNStack
           /\ FNStackIndex' = FNStackIndex
           /\ pc' = "running"
     /\ (hooks' = hooks + 1 /\ hist'[Len(hist')].op \in RecordHooks)
        => /\ Len(appended') = Len(appended) + 1
           /\ pc' = "running"]_vars

\* The calls of hook op made so far.
CallsOf(op) == Cardinality({i \in 1 .. Len(hist) : hist[i].op = op})

\* C12: more recordCall calls than the stack holds have been made, and a
\* later load has been recorded.
CallOverflowWitness ==
  /\ pc = "running"
  /\ FNStackIndex = maxFNStack
  /\ CallsOf("recordCall") > maxFNStack
  /\ CallsOf("recordCall") = Len(hist) - 2
  /\ Last.op = "recordLoad"
  /\ appended[Len(appended)].type = "LDType"

\* C13: a recordBB with lastBB set whose function differs from the one in
\* the top frame of the function-call stack leaves the process running and
\* that stack as it was, and appends the block record.
MismatchRecovered ==
  [][(/\ IsCallOf("recordBB")
      /\ CallArg(3) # 0
      /\ FNStackIndex # 0
      /\ FNStack[FNStackIndex - 1].fnAddress # CallArg(2))
     => /\ pc' = "running"
        /\ FNStackIndex' = FNStackIndex
        /\ FNStack' = FNStack
        /\ Len(appended') = Len(appended) + 1
        /\ NewEntry.type = "BBType"
        /\ NewEntry.id = CallArg(1)
        /\ NewEntry.address = CallArg(2)]_vars

\* C13: a last block of one function has ended with the frame of a call to
\* another function, never popped, on top of the function-call stack.
MismatchWitness ==
  /\ Last.op = "recordBB"
  /\ Last.arg[3] # 0
  /\ FNStackIndex # 0
  /\ FNStackIndex = CallsOf("recordCall")
  /\ FNStack[FNStackIndex - 1].fnAddress # Last.arg[2]
  /\ appended[Len(appended)].type = "BBType"

\* C14: a recordBB with lastBB set whose function is the one in the top
\* frame pops exactly that frame and appends a block record whose length
\* field is the frame's call-site id; a recordBB with lastBB not set leaves
\* the function-call stack alone and appends a block record with call id 0.
MatchedReturn ==
  [][/\ (/\ IsCallOf("recordBB")
          /\ CallArg(3) # 0
          /\ FNStackIndex # 0
          /\ FNStack[FNStackIndex - 1].fnAddress = CallArg(2))
        => /\ FNStackIndex' = FNStackIndex - 1
           /\ FNStack' = FNStack
           /\ Len(appended') = Len(appended) + 1
           /\ NewEntry = Entry("BBType", CallArg(1), CallArg(2),
                               FNStack[FNStackIndex - 1].id)
     /\ (IsCallOf("recordBB") /\ CallArg(3) = 0)
        => /\ FNStackIndex' = FNStackIndex
           /\ FNStack' = FNStack
           /\ Len(appended') = Len(appended) + 1
           /\ NewEntry = Entry("BBType", CallArg(1), CallArg(2), 0)]_vars

\* C14: the last block of a called function has ended and its record
\* carries the id of the call, whose frame is gone.
MatchedReturnWitness ==
  /\ Last.op = "recordBB"
  /\ Last.arg[3] # 0
  /\ CallsOf("recordCall") = 1
  /\ FNStackIndex = 0
  /\ appended[Len(appended)].type = "BBType"
  /\ appended[Len(appended)].length \in {c.id : c \in Calls}

BBAlwaysPopped ==
  [][IsCallOf("recordBB")
     => /\ BBStackIndex' = BBStackIndex - 1
        /\ BBStack' = BBStack]_vars

\* C16: a block that is not a last block has ended, under a call frame
\* that stayed, and the block stack is one frame lower.
BBPoppedWitness ==
  /\ Last.op = "recordBB"
  /\ Last.arg[3] = 0
  /\ FNStackIndex = 1
  /\ BBStackIndex = 0
  /\ CallsOf("recordStartBB") = 1

\* The statements of flushCache, from msync to the reset of the index.
FlushSteps == {"msync", "munmap", "offset", "extend", "mmap", "reset"}

\* C17: once recordInit has run, the index is between 0 and entryCacheSize
\* in every state; an append is inside flushCache only when it found the
\* index equal to entryCacheSize, and otherwise, or after the flush, stores
\* its entry at slot index < entryCacheSize of the window and then adds one
\* to the index.
CursorInBounds ==
  /\ [](pc # "start" =>
          entryCache.index \in 0 .. entryCacheSize)
  /\ [](pc = "running" =>
          /\ step \in FlushSteps \ {"reset"} =>
               entryCache.index = entryCacheSize
          /\ step \in {"store", "incIndex"} =>
               entryCache.index < entryCacheSize)
  /\ [][(pc = "running" /\ pc' = "running") =>
          /\ step = "check" =>
               (step' = "msync") = (entryCache.index = entryCacheSize)
          /\ step = "reset" => step' = "store" /\ entryCache'.index = 0
          /\ step = "store" =>
               /\ entryCache' = entryCache
               /\ file'[entryCache.fileOffset \div sizeofEntry
                           + entryCache.index + 1] = pending
          /\ step = "incIndex" =>
               entryCache'.index = entryCache.index + 1]_vars

\* C17: an append that found the cache full has flushed it and is about to
\* store its entry in slot 0 of the next window.
CursorWitness ==
  /\ pc = "running"
  /\ step = "store"
  /\ entryCache.index = 0
  /\ entryCache.fileOffset = entryCacheSizeinBytes
  /\ Len(appended) = entryCacheSize

\* The flushes that full caches have caused while n entries were appended.
Rotations(n) == (Max(n, 1) - 1) \div entryCacheSize

\* C18: once recordInit has run, fileOffset is a multiple of
\* entryCacheSizeinBytes, cache is the mapping of the file at fileOffset and
\* all of [fileOffset, fileOffset + entryCacheSizeinBytes) is mapped; while
\* the process runs nothing else is mapped; every flush has advanced
\* fileOffset by entryCacheSizeinBytes, and a flush leaves the index at 0.
WindowTracksOffset ==
  pc # "start" =>
    /\ entryCache.fileOffset % entryCacheSizeinBytes = 0
    /\ entryCache.cache = entryCache.fileOffset
    /\ SlotsOf(entryCache.fileOffset, entryCacheSizeinBytes) \subseteq mapped
    /\ pc = "running" =>
         mapped = SlotsOf(entryCache.fileOffset, entryCacheSizeinBytes)
    /\ closeCount = 0 =>
         /\ entryCache.fileOffset =
              entryCacheSizeinBytes * Rotations(Len(appended))
         /\ entryCache.index =
              Len(appended) - entryCacheSize * Rotations(Len(appended))
    /\ closeCount = 1 =>
         /\ entryCache.fileOffset =
              entryCacheSizeinBytes * (Rotations(Len(appended)) + 1)
         /\ entryCache.index = 0

\* C18: the cache has been flushed once and the first entry of the second
\* window is in place.
WindowWitness ==
  /\ pc = "running"
  /\ entryCache.fileOffset = entryCacheSizeinBytes
  /\ entryCache.index = 1
  /\ Len(appended) = entryCacheSize + 1

\* C19: once recordInit has run, the file is at least
\* fileOffset + entryCacheSizeinBytes bytes long, so every slot of the
\* window that cache maps lies inside the file.
FileCoversWindow ==
  pc # "start" =>
    /\ fileSize >= entryCache.fileOffset + entryCacheSizeinBytes
    /\ \A b \in SlotsOf(entryCache.cache, entryCacheSizeinBytes) :
         b + sizeofEntry <= fileSize

\* C19: the file has been extended for a second window.
FileExtendedWitness ==
  /\ pc = "running"
  /\ entryCache.fileOffset = entryCacheSizeinBytes
  /\ filePos = 2 * (entryCacheSizeinBytes + 1)
  /\ fileSize = filePos + 1

\* C20: when closeCacheFile has run and the process has exited, nothing is
\* mapped, fileOffset is still the offset of the window that holds the last
\* record, and the file has not been extended beyond the extension made for
\* that window.
ReleasedAfterTeardown ==
  (pc = "exited" /\ closeCount = 1) =>
    LET lastWindow == (Len(file) - 1) \div entryCacheSize
    IN  /\ mapped = {}
        /\ entryCache.fileOffset = entryCacheSizeinBytes * lastWindow
        /\ fileSize <= (lastWindow + 1) * (entryCacheSizeinBytes + 1) + 1

(***************************************************************************)
(* Runs in any build, in which open() and the first mmap() may fail.       *)
(***************************************************************************)
EnvInit ==
  /\ RuntimeInit
  /\ build \in Builds
  /\ NoModule
  /\ NoProgram

EnvNext ==
  \/ \E openOk \in BOOLEAN, mmapOk \in BOOLEAN : RecordInitWith(openOk, mmapOk)
  \/ \E t \in Threads :
       \/ \E b \in Blocks : RecordStartBB(t, b.id, b.fp)
       \/ RecordLoad(t, 2, 8192, 8)
       \/ RecordStore(t, 5, 8192, 4)
  \/ ProgramExit
  \/ \E sig \in DeliveredSignals : Signal(sig)

EnvSpec == EnvInit /\ [][EnvNext]_vars

\* C21: once recordInit has been entered, a cache that is not a mapping of
\* the file (the file could not be opened, or mmap failed) means that the
\* process was ended by abort() and that nothing was appended: no hook runs
\* and no entry is stored while the mapping is missing.
MappingFailureFatal ==
  (pc # "start" /\ entryCache.cache \in {NULL, MAP_FAILED})
    => (pc = "killed" /\ exitCode = SIGABRT /\ hooks = 0 /\ closeCount = 0)

\* C22: when sizeof(Entry) does not divide entryCacheSizeinBytes, recordInit
\* ends the process by abort() with the file as it was (not created, not
\* truncated, not extended), nothing mapped, no atexit function and no
\* signal handler registered; when it divides, entryCacheSize entries are
\* exactly entryCacheSizeinBytes bytes.
DivisibilityChecked ==
  /\ []((entryCacheSizeinBytes % sizeofEntry # 0 /\ pc # "start") =>
          /\ pc = "killed"
          /\ exitCode = SIGABRT
          /\ handlers = {}
          /\ atexitHandlers = <<>>
          /\ mapped = {}
          /\ entryCache.cache = NULL
          /\ countUpdateThreadID = 0)
  /\ [](entryCacheSizeinBytes % sizeofEntry = 0 =>
          entryCacheSize * sizeofEntry = entryCacheSizeinBytes)
  /\ [][entryCacheSizeinBytes % sizeofEntry # 0 =>
          /\ file' = file
          /\ fileSize' = fileSize
          /\ filePos' = filePos]_vars

\* C22: recordInit has run in a build whose sizes do not divide, on a trace
\* file left by an earlier run, and the file still has that run's records.
DivisibilityWitness ==
  /\ build.remainder # 0
  /\ Last.op = "recordInit"
  /\ pc = "killed"
  /\ file # <<>>

\* The threads that called updateThreadID, oldest call first: recordInit's
\* caller and the callers of recordHandlerThreadID.
RECURSIVE Updaters(_)
Updaters(h) ==
  IF h = <<>> THEN <<>>
  ELSE LET e == h[Len(h)]
           before == Updaters(SubSeq(h, 1, Len(h) - 1))
       IN  IF e.op = "recordInit" THEN Append(before, MainThread)
           ELSE IF e.op = "recordHandlerThreadID"
           THEN Append(before, e.arg[1])
           ELSE before

\* C23: once recordInit has run, handlerThreadID is the thread of the latest
\* updateThreadID call, recordInit's thread if recordHandlerThreadID was
\* never called, whatever other hooks, signals and the teardown have done
\* since.
ThreadIdLifecycle ==
  (pc # "start" /\ Updaters(hist) # <<>>) =>
    /\ handlerThreadID = Updaters(hist)[Len(Updaters(hist))]
    /\ countUpdateThreadID = Len(Updaters(hist))

\* C23: thread 2 made itself the handler thread and a load was recorded
\* afterwards.
ThreadIdWitness ==
  /\ Len(hist) = 3
  /\ hist[2] = [op |-> "recordHandlerThreadID", arg |-> <<2>>]
  /\ hist[3].op = "recordLoad"
  /\ handlerThreadID = 2

\* C24: handlerThreadID is reassigned at most once after recordInit: it is
\* the thread of the first recordHandlerThreadID call, if there was one.
ThreadIdSetOnce ==
  (pc # "start" /\ Len(Updaters(hist)) >= 2) =>
    handlerThreadID = Updaters(hist)[2]

\* The bytes before the first zero byte at p.
CharsBefore(p) ==
  CHOOSE n \in 0 .. 8 :
    /\ Memory[p + n] = 0
    /\ \A k \in 0 .. (n - 1) : Memory[p + k] # 0

\* C26: recordStrLoad and recordStrStore append a load, respectively store,
\* record with the string's address and one more than the number of its
\* bytes before the first zero byte as the length: 6 for the 5-character
\* string, 1 for the empty string.
StringLength ==
  (pc = "running" /\ Last.op \in {"recordStrLoad", "recordStrStore"}) =>
    /\ appended # <<>>
    /\ appended[Len(appended)] =
         Entry(IF Last.op = "recordStrLoad" THEN "LDType" ELSE "STType",
               Last.arg[1], Last.arg[2], CharsBefore(Last.arg[2]) + 1)
    /\ Last.arg[2] = Str.hello => appended[Len(appended)].length = 6
    /\ Last.arg[2] = Str.empty => appended[Len(appended)].length = 1

\* C26: a store to the 5-character string has been recorded with length 6.
StringLengthWitness ==
  /\ pc = "running"
  /\ Last.op = "recordStrStore"
  /\ Last.arg[2] = Str.hello
  /\ CharsBefore(Str.hello) = 5
  /\ appended[Len(appended)].length = 6

\* C25: whichever thread makes a hook call, and whatever handlerThreadID
\* is, the call has the same effect: a step that is a hook called by one
\* thread is the same hook's step for every thread, each record-writing
\* hook appends its record and recordStartBB on a stack that is not full
\* writes its frame.
ThreadBlind ==
  [][/\ \A b \in Blocks :
          /\ (\E t \in Threads : RecordStartBB(t, b.id, b.fp))
               => \A t \in Threads : RecordStartBB(t, b.id, b.fp)
          /\ (\E t \in Threads : RecordBB(t, b.id, b.fp, b.lastBB))
               => \A t \in Threads : RecordBB(t, b.id, b.fp, b.lastBB)
     /\ (\E t \in Threads : RecordLoad(t, 2, 8192, 8))
          => \A t \in Threads : RecordLoad(t, 2, 8192, 8)
     /\ (\E t \in Threads : RecordStore(t, 5, 8192, 4))
          => \A t \in Threads : RecordStore(t, 5, 8192, 4)
     /\ \A p \in Strings :
          /\ (\E t \in Threads : RecordStrLoad(t, 8, p))
               => \A t \in Threads : RecordStrLoad(t, 8, p)
          /\ (\E t \in Threads : RecordStrStore(t, 9, p))
               => \A t \in Threads : RecordStrStore(t, 9, p)
     /\ (\E t \in Threads : RecordStrcatStore(t, 10, Str.hello, Str.hello))
          => \A t \in Threads : RecordStrcatStore(t, 10, Str.hello, Str.hello)
     /\ \A c \in Calls :
          (\E t \in Threads : RecordCall(t, c.id, c.fp))
            => \A t \in Threads : RecordCall(t, c.id, c.fp)
     /\ (\E t \in Threads : RecordReturn(t, 6, Fn.A))
          => \A t \in Threads : RecordReturn(t, 6, Fn.A)
     /\ (\E t \in Threads : RecordExtCall(t, 11, Fn.Ext))
          => \A t \in Threads : RecordExtCall(t, 11, Fn.Ext)
     /\ (\E t \in Threads : RecordInvFailure(t, 12))
          => \A t \in Threads : RecordInvFailure(t, 12)
     /\ (\E t \in Threads : RecordSelect(t, 13, 1))
          => \A t \in Threads : RecordSelect(t, 13, 1)
     /\ (hooks' = hooks + 1 /\ hist'[Len(hist')].op \in RecordHooks)
          => Len(appended') = Len(appended) + 1
     /\ (IsCallOf("recordStartBB") /\ BBStackIndex # maxBBStack)
          => BBStack'[BBStackIndex] =
               [id |-> CallArg(1), address |-> CallArg(2)]]_vars

\* C25: with thread 2 as the handler thread, a store made by either thread
\* has been recorded.
ThreadBlindWitness ==
  /\ Len(hist) = 3
  /\ hist[2] = [op |-> "recordHandlerThreadID", arg |-> <<2>>]
  /\ hist[3].op = "recordStore"
  /\ handlerThreadID = 2
  /\ appended = <<Entry("STType", 5, 8192, 4)>>

\* The hooks that touch no shadow stack.
NonStructuralHooks ==
  {"recordLoad", "recordStore", "recordStrLoad", "recordStrStore",
   "recordStrcatStore", "recordReturn", "recordExtCall", "recordInvFailure",
   "recordSelect"}

\* C30: a call of recordLoad, recordStore, recordStrLoad, recordStrStore,
\* recordStrcatStore, recordReturn, recordExtCall, recordInvFailure or
\* recordSelect leaves both stacks, their indices and the thread id as they
\* were; recordReturn's record is made of its arguments alone.
NonStructuralFrame ==
  [][/\ (hooks' = hooks + 1 /\ hist'[Len(hist')].op \in NonStructuralHooks)
          => /\ BBStack' = BBStack
             /\ BBStackIndex' = BBStackIndex
             /\ FNStack' = FNStack
             /\ FNStackIndex' = FNStackIndex
             /\ handlerThreadID' = handlerThreadID
             /\ countUpdateThreadID' = countUpdateThreadID
     /\ IsCallOf("recordReturn")
          => NewEntry = Entry("RTType", CallArg(1), CallArg(2), 0)]_vars

\* C30: a return has been recorded for a call whose frame is still on the
\* function-call stack.
ReturnKeepsFrameWitness ==
  /\ Last.op = "recordReturn"
  /\ FNStackIndex = 1
  /\ FNStack[0] = [id |-> Last.arg[1], fnAddress |-> Last.arg[2]]
  /\ appended[Len(appended)].type = "RTType"

(***************************************************************************)
(* The traced program as TracingNoGiri::visitCallInst instruments it: the  *)
(* hook a call site gets depends on what is known of the callee.           *)
(***************************************************************************)
\* Call sites: the call's id, the callee's address and name, whether the
\* callee is known (a direct call), is only declared, is an intrinsic,
\* whether checkForInvariantInst holds of the call (its value has a checked
\* type and is not a constant), and the call's operand 2 where the
\* instrumentation reads it (the start routine given to pthread_create,
\* here a function the program also calls itself).
CallSites ==
  {[id |-> 6, fp |-> Fn.A, name |-> "f", direct |-> TRUE,
    declaration |-> FALSE, intrinsic |-> FALSE, checked |-> TRUE,
    operand2 |-> 0],
   [id |-> 7, fp |-> Fn.B, name |-> "", direct |-> FALSE,
    declaration |-> FALSE, intrinsic |-> FALSE, checked |-> FALSE,
    operand2 |-> 0],
   [id |-> 11, fp |-> Fn.Ext, name |-> "pthread_create", direct |-> TRUE,
    declaration |-> TRUE, intrinsic |-> FALSE, checked |-> TRUE,
    operand2 |-> Fn.A],
   [id |-> 17, fp |-> Fn.A, name |-> "f", direct |-> TRUE,
    declaration |-> FALSE, intrinsic |-> FALSE, checked |-> FALSE,
    operand2 |-> 0],
   [id |-> 14, fp |-> Fn.Ext + 8, name |-> "getchar", direct |-> TRUE,
    declaration |-> TRUE, intrinsic |-> FALSE, checked |-> TRUE,
    operand2 |-> 0],
   [id |-> 15, fp |-> Fn.Ext + 16, name |-> "free", direct |-> TRUE,
    declaration |-> TRUE, intrinsic |-> FALSE, checked |-> FALSE,
    operand2 |-> 0],
   [id |-> 16, fp |-> Fn.Ext + 24, name |-> "llvm.sqrt.f64", direct |-> TRUE,
    declaration |-> TRUE, intrinsic |-> TRUE, checked |-> TRUE,
    operand2 |-> 0]}

\* The call-start hook visitCallInst inserts before the call, or "none".
CallStartHook(c) ==
  IF c.direct /\ c.declaration /\ (c.intrinsic \/ ~c.checked) THEN "none"
  ELSE IF c.direct /\ c.name = "pthread_create" THEN "recordExtCall"
  ELSE "recordCall"

\* Whether the call site gets the extra pair of records for the function
\* pthread_create starts.
HasThreadRecords(c) ==
  c.direct /\ c.declaration /\ CallStartHook(c) # "none"
    /\ c.name = "pthread_create"

\* The call-start hook of call site c runs.
CallSiteStart(t, c) ==
  \/ CallStartHook(c) = "recordCall" /\ RecordCall(t, c.id, c.fp)
  \/ CallStartHook(c) = "recordExtCall" /\ RecordExtCall(t, c.id, c.fp)

\* The return hook visitCallInst inserts after the call.
CallSiteReturn(t, c) ==
  CallStartHook(c) # "none" /\ RecordReturn(t, c.id, c.fp)

\* The extra records of a pthread_create call site, for the started
\* function: a call record and a return record with the call's id.
CallSiteThreadCall(t, c) ==
  HasThreadRecords(c) /\ RecordCall(t, c.id, c.operand2)

CallSiteThreadReturn(t, c) ==
  HasThreadRecords(c) /\ RecordReturn(t, c.id, c.operand2)

InstrNext ==
  \/ RecordInit
  \/ \E b \in Blocks : RecordStartBB(MainThread, b.id, b.fp)
  \/ \E b \in Blocks : RecordBB(MainThread, b.id, b.fp, b.lastBB)
  \/ \E c \in CallSites : CallSiteStart(MainThread, c)
  \/ \E c \in CallSites : CallSiteReturn(MainThread, c)
  \/ \E c \in CallSites : CallSiteThreadCall(MainThread, c)
  \/ \E c \in CallSites : CallSiteThreadReturn(MainThread, c)
  \/ ProgramExit

InstrSpec == Init /\ [][InstrNext]_vars

\* C27: no frame of the function-call stack is for a function that is only
\* declared: calls of such functions are recorded without a push.
NoFrameForDeclaration ==
  \A i \in 0 .. (FNStackIndex - 1) :
    FNStack[i].fnAddress \notin {c.fp : c \in {d \in CallSites : d.declaration}}

(***************************************************************************)
(* The numbering passes of BasicBlockNumbering.cpp, run on a module that   *)
(* other passes add blocks to.  One QueryBasicBlockNumbers object is       *)
(* followed from its run on; a pass that changes the module or its         *)
(* metadata invalidates it, so such passes run before it.                  *)
(***************************************************************************)
runtimeVars ==
  <<pc, entryCache, file, fileSize, filePos, mapped, trace_index, BBStack,
    BBStackIndex, FNStack, FNStackIndex, handlerThreadID,
    countUpdateThreadID, atexitHandlers, handlers, exitCode, appended,
    closeCount, hooks, producing, hist, step, pending, build, mutexVars>>

\* The BasicBlock objects there can be, by address; 0 is the null pointer.
BasicBlocks == {100 + i : i \in 1 .. MaxBlocks}
NullBlock == 0

Range(f) == {f[x] : x \in DOMAIN f}

\* std::map's operator[] assignment.
Put(f, k, v) == [x \in DOMAIN f \cup {k} |-> IF x = k THEN v ELSE f[x]]

NumInit ==
  /\ RuntimeInit
  /\ build \in {b \in Builds : b.remainder = 0}
  /\ NoModule
  /\ NoProgram

\* Some pass puts a new block into the module, first or last in its order.
InsertBlock(b, atFront) ==
  /\ queryState = "idle"
  /\ Len(blocks) < MaxBlocks
  /\ b \notin Range(blocks)
  /\ blocks' = IF atFront THEN <<b>> \o blocks ELSE Append(blocks, b)
  /\ UNCHANGED <<md, IDMap, BBMap, queryState, runtimeVars, progVars>>

\* BasicBlockNumberPass::runOnModule: getOrInsertNamedMetadata, then one
\* operand (BB, ++count) per block.
\* The pass as it would be if it counted the blocks from 0 (count++).
BasicBlockNumberPassFromZero ==
  LET new == [i \in 1 .. Len(blocks) |-> [bb |-> blocks[i], id |-> i - 1]]
  IN  /\ queryState = "idle"
      /\ Len(md.ops) + Len(new) <= MaxOperands
      /\ md' = [named |-> TRUE, ops |-> md.ops \o new]
      /\ UNCHANGED <<blocks, IDMap, BBMap, queryState, runtimeVars, progVars>>

BasicBlockNumberPass ==
  LET new == [i \in 1 .. Len(blocks) |-> [bb |-> blocks[i], id |-> i]]
  IN  /\ queryState = "idle"
      /\ Len(md.ops) + Len(new) <= MaxOperands
      /\ md' = [named |-> TRUE, ops |-> md.ops \o new]
      /\ UNCHANGED <<blocks, IDMap, BBMap, queryState, runtimeVars, progVars>>

\* RemoveBasicBlockNumbers::runOnModule
RemoveBasicBlockNumbers ==
  /\ queryState = "idle"
  /\ md # NoMD
  /\ md' = NoMD
  /\ UNCHANGED <<blocks, IDMap, BBMap, queryState, runtimeVars, progVars>>

\* The loop of QueryBasicBlockNumbers::runOnModule from operand k on.  A
\* failing assert ends the pass unless NDEBUG compiled it out.
RECURSIVE ReadOperands(_, _, _, _)
ReadOperands(ops, k, idmap, bbmap) ==
  IF k > Len(ops)
  THEN [IDMap |-> idmap, BBMap |-> bbmap, queryState |-> "done"]
  ELSE
    LET BB == ops[k].bb
        id == ops[k].id
        inserted == id \notin DOMAIN bbmap
        idmap2 == Put(idmap, BB, id)
        bbmap2 == IF inserted THEN Put(bbmap, id, BB) ELSE bbmap
    IN  IF id = 0 /\ ~build.NDEBUG
        THEN [IDMap |-> idmap, BBMap |-> bbmap, queryState |-> "aborted"]
        ELSE IF ~inserted /\ ~build.NDEBUG
        THEN [IDMap |-> idmap2, BBMap |-> bbmap2, queryState |-> "aborted"]
        ELSE ReadOperands(ops, k + 1, idmap2, bbmap2)

\* QueryBasicBlockNumbers::runOnModule
QueryRunOnModule ==
  /\ queryState = "idle"
  /\ LET r == IF md = NoMD
              THEN [IDMap |-> IDMap, BBMap |-> BBMap, queryState |-> "done"]
              ELSE ReadOperands(md.ops, 1, IDMap, BBMap)
     IN  /\ IDMap' = r.IDMap
         /\ BBMap' = r.BBMap
         /\ queryState' = r.queryState
  /\ UNCHANGED <<blocks, md, runtimeVars, progVars>>

\* QueryBasicBlockNumbers::getID and getBlock
getID(BB) == IF BB \in DOMAIN IDMap THEN IDMap[BB] ELSE 0
getBlock(id) == IF id \in DOMAIN BBMap THEN BBMap[id] ELSE NullBlock

NumNext ==
  \/ \E b \in BasicBlocks, atFront \in BOOLEAN : InsertBlock(b, atFront)
  \/ BasicBlockNumberPass
  \/ RemoveBasicBlockNumbers
  \/ QueryRunOnModule

NumSpec == NumInit /\ [][NumNext]_vars

\* The metadata gives one ID to two different blocks.
SharedID ==
  \E j \in 1 .. Len(md.ops), k \in 1 .. Len(md.ops) :
    md.ops[j].id = md.ops[k].id /\ md.ops[j].bb # md.ops[k].bb

\* The first operand with this ID.
FirstWithID(id) ==
  CHOOSE k \in 1 .. Len(md.ops) :
    md.ops[k].id = id /\ \A j \in 1 .. (k - 1) : md.ops[j].id # id

\* C28: when QueryBasicBlockNumbers has run on metadata that gives one ID to
\* two blocks, it has finished reading it, getID of a block in the metadata
\* is an ID the metadata gives that block, and getBlock of an ID in the
\* metadata is the block of the first operand with that ID.
SharedIDsLoad ==
  (queryState # "idle" /\ SharedID) =>
    /\ queryState = "done"
    /\ \A k \in 1 .. Len(md.ops) :
         /\ getID(md.ops[k].bb) \in
              {md.ops[j].id :
                 j \in {i \in 1 .. Len(md.ops) : md.ops[i].bb = md.ops[k].bb}}
         /\ getBlock(md.ops[k].id) = md.ops[FirstWithID(md.ops[k].id)].bb

\* C29: when QueryBasicBlockNumbers has read the metadata, getBlock (getID
\* (b)) is b for every block b of the metadata, getID (getBlock (i)) is i
\* for every ID i of the metadata, getID is 0 for a block that is not in
\* the metadata, getBlock is null for an ID that is not in it, and no block
\* of the metadata has ID 0.
IDRoundTrip ==
  queryState = "done" =>
    /\ \A k \in 1 .. Len(md.ops) :
         /\ getBlock(getID(md.ops[k].bb)) = md.ops[k].bb
         /\ getID(getBlock(md.ops[k].id)) = md.ops[k].id
         /\ getID(md.ops[k].bb) # 0
    /\ \A b \in BasicBlocks \ {md.ops[k].bb : k \in 1 .. Len(md.ops)} :
         getID(b) = 0
    /\ \A i \in (0 .. MaxBlocks + 1) \ {md.ops[k].id : k \in 1 .. Len(md.ops)} :
         getBlock(i) = NullBlock

(***************************************************************************)
(* updateThreadID with several threads inside it: each statement is a      *)
(* step, countUpdateThreadID++ is a read and a write.  recordInit runs     *)
(* first, on the main thread, before the traced program starts threads.    *)
(***************************************************************************)
\* pthread_mutex_lock returns when no thread holds the mutex.
\* As it would be if the lock did not wait:
CanLockAlways(t) == TRUE

CanLock(t) == mutexRecordThreadID = 0

At(t, where) == updating[t].pc = where
Goto(t, where) == updating' = [updating EXCEPT ![t].pc = where]

UpdateSame ==
  UNCHANGED <<pc, entryCache, file, fileSize, filePos, mapped, trace_index,
              BBStack, BBStackIndex, FNStack, FNStackIndex, atexitHandlers,
              handlers, exitCode, appended, closeCount, producing, step,
              pending, build, compileTime, progVars>>

\* Thread t calls recordHandlerThreadID, which calls updateThreadID.
UpdateCall(t) ==
  /\ pc = "running" /\ At(t, "idle")
  /\ countUpdateThreadID < MaxThreadUpdates
  /\ hooks < MaxThreadUpdates
  /\ hooks' = hooks + 1
  /\ hist' = Append(hist, [op |-> "recordHandlerThreadID", arg |-> <<t>>])
  /\ Goto(t, "lock")
  /\ UNCHANGED <<mutexRecordThreadID, sections, handlerThreadID,
                 countUpdateThreadID>>
  /\ UpdateSame

\* pthread_mutex_lock (&mutexRecordThreadID)
UpdateLock(t) ==
  /\ At(t, "lock") /\ CanLock(t)
  /\ mutexRecordThreadID' = t
  /\ sections' = Append(sections, t)
  /\ Goto(t, "assign")
  /\ UNCHANGED <<handlerThreadID, countUpdateThreadID, hooks, hist>>
  /\ UpdateSame

\* handlerThreadID = pthread_self()
UpdateAssign(t) ==
  /\ At(t, "assign")
  /\ handlerThreadID' = t
  /\ Goto(t, "read")
  /\ UNCHANGED <<mutexRecordThreadID, sections, countUpdateThreadID, hooks,
                 hist>>
  /\ UpdateSame

\* countUpdateThreadID++: the read
UpdateRead(t) ==
  /\ At(t, "read")
  /\ updating' = [updating EXCEPT ![t] = [pc |-> "write",
                                          tmp |-> countUpdateThreadID]]
  /\ UNCHANGED <<mutexRecordThreadID, sections, handlerThreadID,
                 countUpdateThreadID, hooks, hist>>
  /\ UpdateSame

\* countUpdateThreadID++: the write; the warning that follows changes
\* nothing.
UpdateWrite(t) ==
  /\ At(t, "write")
  /\ countUpdateThreadID' = updating[t].tmp + 1
  /\ Goto(t, "unlock")
  /\ UNCHANGED <<mutexRecordThreadID, sections, handlerThreadID, hooks, hist>>
  /\ UpdateSame

\* pthread_mutex_unlock (&mutexRecordThreadID)
UpdateUnlock(t) ==
  /\ At(t, "unlock")
  /\ mutexRecordThreadID' = 0
  /\ updating' = [updating EXCEPT ![t] = [pc |-> "idle", tmp |-> 0]]
  /\ UNCHANGED <<sections, handlerThreadID, countUpdateThreadID, hooks, hist>>
  /\ UpdateSame

MutexNext ==
  \/ RecordInit
  \/ \E t \in Threads : UpdateCall(t)
  \/ \E t \in Threads : UpdateLock(t)
  \/ \E t \in Threads : UpdateAssign(t)
  \/ \E t \in Threads : UpdateRead(t)
  \/ \E t \in Threads : UpdateWrite(t)
  \/ \E t \in Threads : UpdateUnlock(t)

MutexSpec == Init /\ [][MutexNext]_vars

\* The threads inside the critical section of updateThreadID.
InSection == {t \in Threads : updating[t].pc \in {"assign", "read", "write",
                                                  "unlock"}}

\* C31: at most one thread is between the lock and the unlock of
\* updateThreadID, and it is the one holding the mutex; when no call is in
\* progress countUpdateThreadID is the number of calls made (recordInit's
\* and every recordHandlerThreadID) and handlerThreadID is the thread whose
\* critical section ran last (the main thread if only recordInit called).
UpdatesAtomic ==
  /\ \A t, u \in InSection : t = u
  /\ \A t \in InSection : mutexRecordThreadID = t
  /\ (pc = "running" /\ \A t \in Threads : At(t, "idle")) =>
       /\ countUpdateThreadID = Len(Updaters(hist))
       /\ handlerThreadID = IF sections = <<>> THEN MainThread
                            ELSE sections[Len(sections)]

\* C31: two threads have gone through updateThreadID after recordInit, one
\* waiting at the lock while the other was inside.
UpdatesAtomicWitness ==
  /\ \A t \in Threads : At(t, "idle")
  /\ sections = <<2, 1>>
  /\ countUpdateThreadID = 3
  /\ handlerThreadID = 1

\* The operands a step adds to the metadata.
AddedOperands == SubSeq(md'.ops, Len(md.ops) + 1, Len(md'.ops))

FlushEntryCacheCall ==
  /\ HookCall("flushEntryCache", <<>>)
  /\ Commit(FlushEntryCache(Cur))
  /\ FNUnchanged /\ ThreadIdUnchanged

IndicesInRange ==
  /\ BBStackIndex \in 0 .. maxBBStack
  /\ FNStackIndex \in 0 .. maxFNStack

\* The blocks whose hooks are called: those without the special id.
FreeBlocks == {b \in Blocks : b.id # ForceFlushID}

FreeStartBB(b) == IndicesInRange /\ RecordStartBB(MainThread, b.id, b.fp)
FreeBB(b) ==
  IndicesInRange /\ RecordBBAnywhere(MainThread, b.id, b.fp, b.lastBB)
FreeCall(c) == IndicesInRange /\ RecordCall(MainThread, c.id, c.fp)

FreeNext ==
  \/ RecordInit
  \/ \E b \in FreeBlocks : FreeStartBB(b)
  \/ \E b \in FreeBlocks : FreeBB(b)
  \/ \E c \in Calls : FreeCall(c)
  \/ RecordLoad(MainThread, 2, 8192, 8)
  \/ FlushEntryCacheCall
  \/ ProgramExit

FreeSpec == Init /\ [][FreeNext]_vars

\* C36: both stack indices stay inside their arrays' bounds, whatever hooks
\* are called: 0 <= BBStackIndex <= maxBBStack and
\* 0 <= FNStackIndex <= maxFNStack.
StackIndicesInBounds == IndicesInRange

\* The window's slot that entry k of the trace (counted from 0) belongs in.
SlotOf(k) == k + 1

\* C37: trace_index is fileOffset / sizeof(Entry) + index, and the k-th
\* appended record is the file's k-th slot: the records lie in the file one
\* after the other from its start, no unwritten slot between them.
TraceIndexTracksFile ==
  pc \in {"running", "exited"} =>
    /\ trace_index = entryCache.fileOffset \div sizeofEntry + entryCache.index
    /\ \A k \in 0 .. (Len(appended) - 1) :
         /\ SlotOf(k) <= Len(file)
         /\ file[SlotOf(k)] = appended[k + 1]

\* C38: the mapped memory is one window of the file at most: the bytes
\* mapped are those of the window at fileOffset.
OneWindowMapped ==
  /\ Cardinality(mapped) <= entryCacheSize
  /\ pc # "start" =>
       mapped \subseteq SlotsOf(entryCache.fileOffset, entryCacheSizeinBytes)

(***************************************************************************)
(* The instrumentation pass on the instructions of a block                 *)
(* (TracingNoGiri.cpp), and the instrumented program run instruction by    *)
(* instruction against the run-time.  An instruction is its kind k, its    *)
(* id, the function it names (fp) and, for recordBB, the lastBB argument.  *)
(***************************************************************************)
\* The most calls main's block makes.
MaxCalls == 2

Inst(k, id, fp, last) == [k |-> k, id |-> id, fp |-> fp, last |-> last]

\* The program's blocks by address: main has one block, f (at Fn.A) has an
\* entry block that branches to its second block, which returns.
BB == [M1 |-> 201, F1 |-> 202, F2 |-> 203]
ProgramBlocks == <<BB.M1, BB.F1, BB.F2>>
Parent(b) == IF b = BB.M1 THEN Fn.Main ELSE Fn.A
Successor(b) == IF b = BB.F1 THEN BB.F2 ELSE NullBlock
EntryBlock(fp) ==
  IF fp = Fn.Main THEN BB.M1 ELSE IF fp = Fn.A THEN BB.F1 ELSE NullBlock

\* The call instruction of a call site, and the site of a call.
CallInst(c) == Inst("call", c.id, c.fp, 0)
SiteOf(CI) == CHOOSE c \in CallSites : c.id = CI.id

\* The sequences of distinct call sites main's block can hold.
CallSeqs ==
  UNION {{q \in [1 .. n -> CallSites] :
            \A i, j \in 1 .. n : q[i] = q[j] => i = j} : n \in 1 .. MaxCalls}

\* The program before the pass, main making the calls of q in order.
Source(q) ==
  (BB.M1 :> ([i \in 1 .. Len(q) |-> CallInst(q[i])]
               \o <<Inst("ret", 0, 0, 0)>>))
  @@ (BB.F1 :> <<Inst("br", 0, 0, 0)>>)
  @@ (BB.F2 :> <<Inst("phi", 0, 0, 0), Inst("ret", 0, 0, 0)>>)

\* Instruction lists: where an instruction is, a list with a new
\* instruction put before one of its own (CallInst::Create (..., &I)), and
\* a list with an instruction moved before another (I.moveBefore (J)).
IndexOf(insts, I) == CHOOSE i \in 1 .. Len(insts) : insts[i] = I
InsertAt(insts, i, new) ==
  SubSeq(insts, 1, i - 1) \o <<new>> \o SubSeq(insts, i, Len(insts))
InsertBefore(insts, I, new) == InsertAt(insts, IndexOf(insts, I), new)
Without(insts, I) ==
  SubSeq(insts, 1, IndexOf(insts, I) - 1)
    \o SubSeq(insts, IndexOf(insts, I) + 1, Len(insts))
MoveBefore(insts, I, J) == InsertBefore(Without(insts, I), J, I)

getTerminator(insts) == insts[Len(insts)]

\* BasicBlock::getFirstInsertionPt: the first instruction that is neither
\* a phi nor a landing pad.
getFirstInsertionPt(insts) ==
  CHOOSE i \in 1 .. Len(insts) :
    /\ insts[i].k \notin {"phi", "landingpad"}
    /\ \A j \in 1 .. (i - 1) : insts[j].k \in {"phi", "landingpad"}

\* instrumentBasicBlock as it would be if RecordStartBB were put at the
\* block's begin().
instrumentBasicBlockAtBegin(b, insts) ==
  LET id == getID(b)
      FP == Parent(b)
      LastBB == IF getTerminator(insts).k = "ret" THEN 1 ELSE 0
      withBB == InsertBefore(insts, getTerminator(insts),
                             Inst("recordBB", id, FP, LastBB))
  IN  InsertAt(withBB, 1, Inst("recordStartBB", id, FP, 0))

\* instrumentBasicBlock: RecordBB before the terminator, then RecordStartBB
\* at the first insertion point.  The cast of the function is a constant.
instrumentBasicBlock(b, insts) ==
  LET id == getID(b)
      FP == Parent(b)
      LastBB == IF getTerminator(insts).k = "ret" THEN 1 ELSE 0
      withBB == InsertBefore(insts, getTerminator(insts),
                             Inst("recordBB", id, FP, LastBB))
  IN  InsertAt(withBB, getFirstInsertionPt(withBB),
               Inst("recordStartBB", id, FP, 0))

\* isTracerFunction: calls of the run-time's hooks are not instrumented.
isTracerFunction(I) ==
  I.k \in {"recordStartBB", "recordBB", "recordCall", "recordExtCall",
           "recordReturn"}

\* visitCallInst on call instruction CI of insts, its steps in the
\* source's order: the call-start hook before CI; RecordReturn created
\* before CI and CI moved before it; for pthread_create RecordCall for
\* operand 2 created before CI and CI moved before it, then RecordReturn
\* for operand 2 created before CI.
visitCallInst(insts, CI) ==
  LET c == SiteOf(CI)
      start == Inst(CallStartHook(c), c.id, c.fp, 0)
      ret == Inst("recordReturn", c.id, c.fp, 0)
      startExt == Inst("recordCall", c.id, c.operand2, 0)
      retExt == Inst("recordReturn", c.id, c.operand2, 0)
      s1 == InsertBefore(insts, CI, start)
      s2 == MoveBefore(InsertBefore(s1, CI, ret), CI, ret)
      s3 == MoveBefore(InsertBefore(s2, CI, startExt), CI, startExt)
      s4 == InsertBefore(s3, CI, retExt)
  IN  IF CallStartHook(c) = "none" THEN insts
      ELSE IF HasThreadRecords(c) THEN s4
      ELSE s2

\* instrumentLoadsAndStores: visit over the worklist, the instructions the
\* block had when the list was made.
RECURSIVE VisitWorklist(_, _)
VisitWorklist(insts, worklist) ==
  IF worklist = <<>> THEN insts
  ELSE LET I == Head(worklist)
       IN  VisitWorklist(IF I.k = "call" /\ ~isTracerFunction(I)
                         THEN visitCallInst(insts, I) ELSE insts,
                         Tail(worklist))

instrumentLoadsAndStores(insts) == VisitWorklist(insts, insts)

\* runOnBasicBlock
RunOnBasicBlock(b) ==
  /\ pc = "start"
  /\ b \in todo
  /\ code' = [code EXCEPT ![b] = instrumentLoadsAndStores(
                                   instrumentBasicBlock(b, code[b]))]
  /\ todo' = todo \ {b}
  /\ UNCHANGED <<runtimeVars, compileTime, exec>>

\* The module numbered by BasicBlockNumberPass and read by
\* QueryBasicBlockNumbers, main's calls chosen, no block instrumented yet.
ProgInit ==
  /\ RuntimeInit
  /\ build = WorkingBuild
  /\ blocks = ProgramBlocks
  /\ md = [named |-> TRUE,
           ops |-> [i \in 1 .. Len(ProgramBlocks) |->
                      [bb |-> ProgramBlocks[i], id |-> i]]]
  /\ IDMap = [b \in Range(ProgramBlocks) |-> IndexOf(ProgramBlocks, b)]
  /\ BBMap = ProgramBlocks
  /\ queryState = "done"
  /\ \E q \in CallSeqs : code = Source(q)
  /\ todo = Range(ProgramBlocks)
  /\ exec = <<>>

\* The instruction the innermost activation is at.
Current == code[exec[Len(exec)].bb][exec[Len(exec)].ip]
AtKind(k) == pc = "running" /\ step = "idle" /\ exec # <<>> /\ Current.k = k

Frame(b, callid) == [bb |-> b, ip |-> 1, callid |-> callid]

ExecOnly == UNCHANGED <<runtimeVars, compileTime, code, todo>>

\* The instrumented program is linked with the run-time and started: the
\* constructor recordInit runs.
ProgramStart == todo = {} /\ RecordInit

\* main is entered, by no recorded call.
EnterMain ==
  /\ pc = "running" /\ exec = <<>> /\ hooks = 0
  /\ exec' = <<Frame(EntryBlock(Fn.Main), 0)>>
  /\ ExecOnly

\* A call of one of the run-time's hooks.
ExecHook ==
  \/ AtKind("recordStartBB")
       /\ RecordStartBB(MainThread, Current.id, Current.fp)
  \/ AtKind("recordBB")
       /\ RecordBB(MainThread, Current.id, Current.fp, Current.last)
  \/ AtKind("recordCall") /\ RecordCall(MainThread, Current.id, Current.fp)
  \/ AtKind("recordExtCall")
       /\ RecordExtCall(MainThread, Current.id, Current.fp)
  \/ AtKind("recordReturn")
       /\ RecordReturn(MainThread, Current.id, Current.fp)

\* A call of the program's own: a function of the module is entered, the
\* activation noting the recordCall that ran for this call, if one did; a
\* function outside the module runs unseen and returns.
ExecCall ==
  /\ AtKind("call")
  /\ LET recorded == Last.op = "recordCall" /\ Last.arg = <<Current.id,
                                                            Current.fp>>
         callee == EntryBlock(Current.fp)
     IN  exec' = IF callee = NullBlock THEN NextInstruction(exec)
                 ELSE Append(NextInstruction(exec),
                             Frame(callee, IF recorded THEN Current.id
                                           ELSE 0))
  /\ ExecOnly

\* A branch to the block's successor.
ExecBr ==
  /\ AtKind("br")
  /\ LET top == exec[Len(exec)]
     IN  exec' = [exec EXCEPT ![Len(exec)] =
                    [top EXCEPT !.bb = Successor(top.bb), !.ip = 1]]
  /\ ExecOnly

ExecPhi ==
  /\ AtKind("phi")
  /\ exec' = NextInstruction(exec)
  /\ ExecOnly

\* A return: the activation ends.
ExecRet ==
  /\ AtKind("ret")
  /\ exec' = SubSeq(exec, 1, Len(exec) - 1)
  /\ ExecOnly

\* main has returned: exit.
ProgramEnd == exec = <<>> /\ hooks > 0 /\ ProgramExit

ProgNext ==
  \/ \E b \in Range(ProgramBlocks) : RunOnBasicBlock(b)
  \/ ProgramStart
  \/ EnterMain
  \/ ExecHook
  \/ ExecCall
  \/ ExecBr
  \/ ExecPhi
  \/ ExecRet
  \/ ProgramEnd

ProgSpec == ProgInit /\ [][ProgNext]_vars

\* The hooks of kind k among a block's instructions.
HooksOf(insts, k) == {i \in 1 .. Len(insts) : insts[i].k = k}

\* C33: a block the pass has run on has one recordStartBB, at the block's
\* first insertion point (after the phis, before everything else), and one
\* recordBB, immediately before its terminator, both with the block's id,
\* which is not 0, and its function's address; recordBB's lastBB is 1 if the
\* terminator is a return and 0 if not.
BlockInstrumented ==
  \A b \in DOMAIN code :
    b \notin todo =>
      LET insts == code[b]
          n == Len(insts)
      IN  /\ Cardinality(HooksOf(insts, "recordStartBB")) = 1
          /\ HooksOf(insts, "recordBB") = {n - 1}
          /\ \A s \in HooksOf(insts, "recordStartBB") :
               /\ \A i \in 1 .. (s - 1) : insts[i].k = "phi"
               /\ \A i \in (s + 1) .. n : insts[i].k # "phi"
          /\ \A i \in HooksOf(insts, "recordStartBB") \cup {n - 1} :
               /\ insts[i].id = getID(b) /\ insts[i].id # 0
               /\ insts[i].fp = Parent(b)
          /\ insts[n - 1].last = (IF insts[n].k = "ret" THEN 1 ELSE 0)
          /\ insts[n].k \in {"ret", "br"}

\* C33: all blocks are instrumented, among them one that begins with a phi
\* and ends with a return, one that ends with a branch, and one with a call
\* that got hooks of its own.
BlockInstrumentedWitness ==
  /\ todo = {} /\ code # <<>>
  /\ code[BB.F2][1].k = "phi"
  /\ code[BB.F2][2] = Inst("recordStartBB", 3, Fn.A, 0)
  /\ code[BB.F2][3] = Inst("recordBB", 3, Fn.A, 1)
  /\ code[BB.F1][2] = Inst("recordBB", 2, Fn.A, 0)
  /\ code[BB.M1][1].k = "recordStartBB"
  /\ code[BB.M1][2].k = "recordCall"

(***************************************************************************)
(* C34: in the trace of an instrumented program, every return record for  *)
(* a call-site id and function address is preceded by a call record for   *)
(* the same id and address, the extra pair of a pthread_create call site  *)
(* included.                                                               *)
(***************************************************************************)
ReturnAfterCall ==
  \A j \in 1 .. Len(appended) :
    appended[j].type = "RTType" =>
      \E i \in 1 .. j - 1 :
        /\ appended[i].type = "CLType"
        /\ appended[i].id = appended[j].id
        /\ appended[i].address = appended[j].address

(***************************************************************************)
(* C35: well-nested call matching.  In a program where every recordCall   *)
(* (c, f) stands just before a call of a function f of the module, whose  *)
(* traced execution ends in recordBB (_, f, 1), and the nesting stays     *)
(* within maxFNStack: recordCall writes the call record and leaves (c, f) *)
(* on top of the function-call stack; the record of an activation's last  *)
(* block carries the id c of the call that entered it; and the stack is   *)
(* as deep after that hook as it was before the matching recordCall.      *)
(***************************************************************************)
AllCallsTraced ==
  \A b \in DOMAIN code :
    \A i \in 1 .. Len(code[b]) :
      code[b][i].k = "recordCall" =>
        /\ i < Len(code[b])
        /\ code[b][i + 1].k = "call"
        /\ code[b][i + 1].fp = code[b][i].fp
        /\ EntryBlock(code[b][i].fp) # NullBlock

\* The activations in progress that a recordCall entered.
RecordedFrames(e) == {j \in 1 .. Len(e) : e[j].callid # 0}

\* recordCall has run and the call it stands before has not yet.
CallPending ==
  exec # <<>> /\ Last.op = "recordCall" /\ Current.k = "call"

\* The innermost activation's last-block hook has run and its return has not.
LastBlockDone ==
  exec # <<>> /\ Last.op = "recordBB" /\ Last.arg[3] # 0 /\ Current.k = "ret"

LastBlockTagOwn ==
  LastBlockDone =>
    LET tag == appended[Len(appended)].length
        callid == exec[Len(exec)].callid
    IN  \/ tag = 0
        \/ callid # 0 /\ tag = callid
        \/ callid = 0 /\ tag = AllOnes

====
